---- MODULE Spec2Model ----
(***************************************************************************)
(* A model of src/main.rs: the proof-of-work Block, the hash-linked        *)
(* Blockchain with its validation, and the Merkle root of Transaction.     *)
(*                                                                         *)
(* Strings are sequences of character codes (ASCII), so that format!,      *)
(* hex_encode and the slicing of mine are modelled by what they do.        *)
(***************************************************************************)
EXTENDS Integers, Sequences, FiniteSets, TLC

(***************************************************************************)
(* Bounds of the model.                                                    *)
(***************************************************************************)
\* the longest chain the model builds (genesis included)
MaxChain == 3
\* now() returns a value of 0..MaxTime
MaxTime == 1
\* the mining loop is followed up to this nonce
MaxNonce == 6
\* create_merkle_root is applied to at most this many transactions
MaxTx == 4

(***************************************************************************)
(* Program constants.                                                      *)
(***************************************************************************)
\* the length of hex_encode of a Sha256 digest (32 bytes, two characters each)
HexLen == 64
\* the difficulty add_block mines with: new_block.mine(4)
Difficulty == 4

(***************************************************************************)
(* Characters and strings.                                                 *)
(***************************************************************************)
\* the characters "0123456789abcdef" hex_encode writes, as character codes
HexChar(n) == IF n < 10 THEN 48 + n ELSE 87 + n

\* the character '0'
Zero == HexChar(0)

\* the character ':' of the header format
Colon == 58

\* the character '"' that {:?} puts around a String
Quote == 34

\* "{}" of an unsigned integer: its decimal digits
RECURSIVE ToDec(_)
ToDec(n) == IF n < 10 THEN <<48 + n>> ELSE ToDec(n \div 10) \o <<48 + (n % 10)>>

\* "0".repeat(n)
RECURSIVE Repeat0(_)
Repeat0(n) == IF n = 0 THEN <<>> ELSE <<Zero>> \o Repeat0(n - 1)

\* String::from("0"), the previous_hash of the genesis block
GenesisPrev == <<Zero>>

\* String::from("Genesis Block")
GenesisData == <<71, 101, 110, 101, 115, 105, 115, 32, 66, 108, 111, 99, 107>>

\* String::from("Block 1") and String::from("Block 2") of main, and "a:1",
\* a payload that holds the separator of the header format
Block1Data == <<66, 108, 111, 99, 107, 32, 49>>
Block2Data == <<66, 108, 111, 99, 107, 32, 50>>
ColonData == <<97, 58, 49>>

(***************************************************************************)
(* Sha256 followed by hex_encode.  The digest function is a library; the   *)
(* model keeps what the program relies on: it is a deterministic function  *)
(* of the bytes hashed, its result is HexLen characters of                 *)
(* "0123456789abcdef", and the number of leading '0' characters varies     *)
(* from one message to the next.  Two running sums over the message stand  *)
(* for the compression function; the first four characters are skewed      *)
(* towards '0' so that a difficulty of 4 is met within MaxNonce steps.     *)
(***************************************************************************)
\* byte i of the message, counted from 1; 0 past its end (the padding)
Byte(msg, i) == IF i > Len(msg) THEN 0 ELSE msg[i] + 1

\* the weights of the eight bytes of a block in the two running sums
W1 == <<3, 7, 11, 13, 17, 19, 23, 29>>
W2 == <<31, 37, 41, 43, 47, 53, 59, 61>>

\* the weighted sum of the eight bytes after offset o
BlockSum(msg, o, w) ==
    w[1] * Byte(msg, o + 1) + w[2] * Byte(msg, o + 2) + w[3] * Byte(msg, o + 3)
    + w[4] * Byte(msg, o + 4) + w[5] * Byte(msg, o + 5) + w[6] * Byte(msg, o + 6)
    + w[7] * Byte(msg, o + 7) + w[8] * Byte(msg, o + 8)

\* one block of eight bytes taken into the two running sums s
Round(s, msg, k) ==
    << (s[1] * 257 + BlockSum(msg, 8 * (k - 1), W1)) % 65521,
       (s[2] * 263 + BlockSum(msg, 8 * (k - 1), W2) + k) % 65519 >>

\* the two running sums after the first k blocks of eight bytes (the sums
\* of the blocks before are a bound value: they are computed once)
RECURSIVE Compress(_, _)
Compress(msg, k) ==
    IF k = 0 THEN <<7, 11>>
    ELSE CHOOSE r \in { Round(s, msg, k) : s \in {Compress(msg, k - 1)} } : TRUE

\* four hex characters of a number below 16^4
Hex4(v) == << HexChar((v \div 4096) % 16), HexChar((v \div 256) % 16),
              HexChar((v \div 16) % 16), HexChar(v % 16) >>

\* the leading group: 4 - (a % 5) leading zeros settled by the first sum
Lead(a) ==
    LET z == a % 5
    IN  IF z = 0 THEN 0
        ELSE IF z = 1 THEN 1 + (a % 15)
        ELSE IF z = 2 THEN 16 + (a % 240)
        ELSE IF z = 3 THEN 256 + (a % 3840)
        ELSE 4096 + (a % 61440)

\* the HexLen characters written for the two sums a and b
Digest(a, b) ==
    Hex4(Lead(a)) \o Hex4(b) \o Hex4(a)
    \o [j \in 1..(HexLen - 12) |-> HexChar((a + j * (b + 1) + (a \div 16) * j * j) % 16)]

\* the digest of a message that is a value at hand
Finalize(m) ==
    CHOOSE h \in { Digest(s[1], s[2]) : s \in {Compress(m, (Len(m) + 7) \div 8)} } : TRUE

\* (the message is a bound value: it is put together once)
Sha256Hex(msg) == CHOOSE h \in { Finalize(m) : m \in {msg} } : TRUE

(***************************************************************************)
(* Transaction                                                             *)
(***************************************************************************)
\* the callers' names, as strings: "al" and "bo"
Alice == <<97, 108>>
Bob == <<98, 111>>

\* struct Transaction; the amount is a whole number of units
Transaction(s, r, a) == [sender |-> s, receiver |-> r, amount |-> a]

\* the transactions the model draws from
Tx1 == Transaction(Alice, Bob, 1)
Tx2 == Transaction(Bob, Alice, 2)
Tx3 == Transaction(Alice, Alice, 1)
Tx4 == Transaction(Bob, Bob, 10)
Txs == {Tx1, Tx2, Tx3, Tx4}


\* the arguments of create_merkle_root: up to MaxTx transactions
TxSeqs == UNION { [1..n -> Txs] : n \in 0..MaxTx }

\* format!("{:?}{:?}{:?}", sender, receiver, amount): the two strings in
\* quotes, the f32 amount with its fraction
transaction_data(t) ==
    <<Quote>> \o t.sender \o <<Quote, Quote>> \o t.receiver \o <<Quote>>
    \o ToDec(t.amount) \o <<46, 48>>

\* the pass with a last hash without a partner hashed with itself
temp_hashes_twice(hashes) ==
    [k \in 1..((Len(hashes) + 1) \div 2) |->
        IF 2 * k <= Len(hashes)
        THEN Sha256Hex(hashes[2 * k - 1] \o hashes[2 * k])
        ELSE Sha256Hex(hashes[2 * k - 1] \o hashes[2 * k - 1])]

\* one pass of the for loop over (0..hashes.len()).step_by(2): a pair is
\* hashed, a last hash without a partner is pushed as it is
temp_hashes(hashes) ==
    [k \in 1..((Len(hashes) + 1) \div 2) |->
        IF 2 * k <= Len(hashes)
        THEN Sha256Hex(hashes[2 * k - 1] \o hashes[2 * k])
        ELSE hashes[2 * k - 1]]

\* while hashes.len() > 1 { ... hashes = temp_hashes; }
RECURSIVE merkle_levels(_)
merkle_levels(hashes) ==
    IF Len(hashes) > 1 THEN merkle_levels(temp_hashes(hashes)) ELSE hashes

\* Transaction::create_merkle_root.  hashes[0] of an empty vector is an index
\* out of bounds: the call panics and returns nothing.
create_merkle_root(transactions) ==
    LET leaves == [k \in 1..Len(transactions) |->
                      Sha256Hex(transaction_data(transactions[k]))]
        hashes == merkle_levels(leaves)
    IN  IF Len(hashes) = 0
        THEN [status |-> "panicked", value |-> <<>>]
        ELSE [status |-> "returned", value |-> hashes[1]]

(***************************************************************************)
(* Block                                                                   *)
(***************************************************************************)
\* format!("{}:{}:{}:{}:{}", index, timestamp, previous_hash, data, nonce)
headers(b) ==
    ToDec(b.index) \o <<Colon>> \o ToDec(b.timestamp) \o <<Colon>>
    \o b.previous_hash \o <<Colon>> \o b.data \o <<Colon>> \o ToDec(b.nonce)

\* Block::calculate_hash
calculate_hash(b) == Sha256Hex(headers(b))

\* Block::new.  The struct declares transactions, the constructor stores the
\* payload it is given as data and computes the hash with nonce 0; txs is the
\* transaction set the caller holds for the block.
Block_new(index, timestamp, previous_hash, data, txs) ==
    LET block == [index |-> index, timestamp |-> timestamp,
                  transactions |-> txs, previous_hash |-> previous_hash,
                  hash |-> <<>>, data |-> data, nonce |-> 0]
    IN  [block EXCEPT !.hash = calculate_hash(block)]

\* the number of leading '0' characters of a string
RECURSIVE LeadingZeros(_)
LeadingZeros(h) ==
    IF Len(h) = 0 \/ h[1] # Zero THEN 0 ELSE 1 + LeadingZeros(Tail(h))

\* mine with the nonce moved on after the hash that matched was stored
mine_iteration_stale(b, difficulty) ==
    LET b1 == [b EXCEPT !.hash = calculate_hash(b)]
    IN  IF difficulty > Len(b1.hash)
        THEN [block |-> b1, pc |-> "panicked"]
        ELSE IF SubSeq(b1.hash, 1, difficulty) = Repeat0(difficulty)
        THEN [block |-> [b1 EXCEPT !.nonce = @ + 1], pc |-> "mined"]
        ELSE [block |-> [b1 EXCEPT !.nonce = @ + 1], pc |-> "mining"]

\* mine with the slice one character short
mine_iteration_short(b, difficulty) ==
    LET b1 == [b EXCEPT !.hash = calculate_hash(b)]
        d == IF difficulty = 0 THEN 0 ELSE difficulty - 1
    IN  IF difficulty > Len(b1.hash)
        THEN [block |-> b1, pc |-> "panicked"]
        ELSE IF SubSeq(b1.hash, 1, d) = Repeat0(d)
        THEN [block |-> b1, pc |-> "mined"]
        ELSE [block |-> [b1 EXCEPT !.nonce = @ + 1], pc |-> "mining"]

\* mine with the nonce left where it is when the hash does not match
mine_iteration_stuck(b, difficulty) ==
    CHOOSE r \in
      { IF difficulty > Len(b1.hash)
        THEN [block |-> b1, pc |-> "panicked"]
        ELSE IF SubSeq(b1.hash, 1, difficulty) = Repeat0(difficulty)
        THEN [block |-> b1, pc |-> "mined"]
        ELSE [block |-> b1, pc |-> "mining"]
        : b1 \in {[b EXCEPT !.hash = calculate_hash(b)]} } : TRUE

\* mine with the nonce moved on by two
mine_iteration_skip(b, difficulty) ==
    LET b1 == [b EXCEPT !.hash = calculate_hash(b)]
    IN  IF difficulty > Len(b1.hash)
        THEN [block |-> b1, pc |-> "panicked"]
        ELSE IF SubSeq(b1.hash, 1, difficulty) = Repeat0(difficulty)
        THEN [block |-> b1, pc |-> "mined"]
        ELSE [block |-> [b1 EXCEPT !.nonce = @ + 2], pc |-> "mining"]

\* mine with the timestamp taken anew in every turn
mine_iteration_restamp(b, difficulty) ==
    LET b1 == [b EXCEPT !.timestamp = @ + 1,
                        !.hash = calculate_hash([b EXCEPT !.timestamp = @ + 1])]
    IN  IF difficulty > Len(b1.hash)
        THEN [block |-> b1, pc |-> "panicked"]
        ELSE IF SubSeq(b1.hash, 1, difficulty) = Repeat0(difficulty)
        THEN [block |-> b1, pc |-> "mined"]
        ELSE [block |-> [b1 EXCEPT !.nonce = @ + 1], pc |-> "mining"]

\* mine with the nonce moved on before the hash is computed
mine_iteration_first(b, difficulty) ==
    LET b0 == [b EXCEPT !.nonce = @ + 1]
        b1 == [b0 EXCEPT !.hash = calculate_hash(b0)]
    IN  IF difficulty > Len(b1.hash)
        THEN [block |-> b1, pc |-> "panicked"]
        ELSE IF SubSeq(b1.hash, 1, difficulty) = Repeat0(difficulty)
        THEN [block |-> b1, pc |-> "mined"]
        ELSE [block |-> b1, pc |-> "mining"]

\* one turn of the loop of Block::mine: the hash is stored, then sliced.
\* &self.hash[..difficulty] panics when difficulty is past the end of the
\* string; a match breaks out of the loop; otherwise the nonce moves on.
\* (b1, the block with the hash stored, is a bound value: computed once.)
mine_iteration(b, difficulty) ==
    CHOOSE r \in
      { IF difficulty > Len(b1.hash)
        THEN [block |-> b1, pc |-> "panicked"]
        ELSE IF SubSeq(b1.hash, 1, difficulty) = Repeat0(difficulty)
        THEN [block |-> b1, pc |-> "mined"]
        ELSE [block |-> [b1 EXCEPT !.nonce = @ + 1], pc |-> "mining"]
        : b1 \in {[b EXCEPT !.hash = calculate_hash(b)]} } : TRUE

\* Block::mine run to its end, followed while the nonce is within MaxNonce
RECURSIVE mine(_, _)
mine(b, difficulty) ==
    LET r == mine_iteration(b, difficulty)
    IN  IF r.pc = "mining" /\ r.block.nonce <= MaxNonce
        THEN mine(r.block, difficulty)
        ELSE r

(***************************************************************************)
(* Blockchain                                                              *)
(***************************************************************************)
\* the values now() returns
Times == 0..MaxTime

\* what a caller of add_block hands over: the payload and the transaction set
Payloads == { <<Block1Data, <<Tx1>> >>, <<Block2Data, <<>> >>,
              <<ColonData, <<Tx1, Tx2, Tx3>> >> }

\* Blockchain::new with the genesis block mined like any other
Blockchain_new_mined(t) ==
    << mine(Block_new(0, t, GenesisPrev, GenesisData, <<>>), Difficulty).block >>

\* Blockchain::new at time t
Blockchain_new(t) == << Block_new(0, t, GenesisPrev, GenesisData, <<>>) >>

\* add_block numbering the new block from 1
add_block_result_index(c, t, data, txs) ==
    mine(Block_new(Len(c) + 1, t, c[Len(c)].hash, data, txs), Difficulty)

\* add_block linking the new block to the first block of the chain
add_block_result_first(c, t, data, txs) ==
    mine(Block_new(Len(c), t, c[1].hash, data, txs), Difficulty)

\* add_block pushing the block as Block::new made it
add_block_result_unmined(c, t, data, txs) ==
    [block |-> Block_new(Len(c), t, c[Len(c)].hash, data, txs), pc |-> "mined"]

\* the block add_block pushes: built on the last block, then mined
add_block_result(c, t, data, txs) ==
    mine(Block_new(Len(c), t, c[Len(c)].hash, data, txs), Difficulty)

\* the loop without the comparison of previous_hash
RECURSIVE validate_from_nolink(_, _)
validate_from_nolink(c, i) ==
    IF i > Len(c) THEN TRUE
    ELSE IF c[i].hash # calculate_hash(c[i]) THEN FALSE
    ELSE validate_from_nolink(c, i + 1)

\* the loop with a check of the proof of work and of the index added
RECURSIVE validate_from_strict(_, _)
validate_from_strict(c, i) ==
    IF i > Len(c) THEN TRUE
    ELSE IF c[i].hash # calculate_hash(c[i]) THEN FALSE
    ELSE IF c[i].previous_hash # c[i - 1].hash THEN FALSE
    ELSE IF LeadingZeros(c[i].hash) < Difficulty \/ c[i].index # i - 1 THEN FALSE
    ELSE validate_from_strict(c, i + 1)

\* the for loop of validate_chain from position i (of 1..Len(c)) on
RECURSIVE validate_from(_, _)
validate_from(c, i) ==
    IF i > Len(c) THEN TRUE
    ELSE IF c[i].hash # calculate_hash(c[i]) THEN FALSE
    ELSE IF c[i].previous_hash # c[i - 1].hash THEN FALSE
    ELSE validate_from(c, i + 1)

\* validate_chain with the loop starting one block late
validate_chain_late(c) == IF Len(c) < 3 THEN TRUE ELSE validate_from(c, 3)

\* Blockchain::validate_chain
validate_chain(c) == IF Len(c) < 2 THEN TRUE ELSE validate_from(c, 2)

(***************************************************************************)
(* The state.                                                              *)
(*   chain       Blockchain.chain                                          *)
(*   valid       what the last validate_chain() of this chain returned:    *)
(*               "none" before any call, else "true" or "false"            *)
(*   tampered    the field of a block of the chain written from outside    *)
(*               add_block (the fields are plain mutable fields), if any   *)
(*   blk         a Block of its own, as in tests::test_mining              *)
(*   pc          where that block is: "none", "unmined" (Block::new        *)
(*               returned), "mining" (in the loop of mine), "mined" (mine  *)
(*               returned), "panicked" (mine panicked)                     *)
(*   difficulty  the argument of the call of mine on blk                   *)
(*   start       blk as it was when mine was called on it (self at entry)  *)
(*   mined_with  the difficulty of the call of mine that had returned on   *)
(*               blk when mine was called on it, -1 if there was none      *)
(*   txs, root   the argument and the outcome of the last call of          *)
(*               create_merkle_root: status "none" before any call, else   *)
(*               "returned" with the value, or "panicked"                  *)
(***************************************************************************)
VARIABLES chain, valid, tampered, blk, pc, difficulty, start, mined_with,
          txs, root

vars == <<chain, valid, tampered, blk, pc, difficulty, start, mined_with,
          txs, root>>

chainVars == <<chain, valid, tampered>>
mineVars == <<blk, pc, difficulty, start, mined_with>>
merkleVars == <<txs, root>>

NoTamper == [field |-> "none", at |-> 0]
NoBlock == Block_new(0, 0, <<>>, <<>>, <<>>)
NoRoot == [status |-> "none", value |-> <<>>]

\* let mut blockchain = Blockchain::new();
Init ==
    /\ \E t \in Times : chain = Blockchain_new(t)
    /\ valid = "none"
    /\ tampered = NoTamper
    /\ blk = NoBlock
    /\ pc = "none"
    /\ difficulty = 0
    /\ start = NoBlock
    /\ mined_with = -1
    /\ txs = <<>>
    /\ root = NoRoot

(***************************************************************************)
(* Blockchain                                                              *)
(***************************************************************************)
\* add_block putting the new block in the place of the last one
add_block_replace ==
    /\ Len(chain) < MaxChain
    /\ \E t \in Times, p \in Payloads :
         LET r == add_block_result(chain, t, p[1], p[2])
         IN  /\ r.pc = "mined"
             /\ chain' = IF Len(chain) > 1
                         THEN Append(SubSeq(chain, 1, Len(chain) - 1), r.block)
                         ELSE Append(chain, r.block)
    /\ valid' = "none"
    /\ UNCHANGED <<tampered, mineVars, merkleVars>>

\* blockchain.add_block(data): the new block is mined, then pushed.  The
\* call returns when mine does.
add_block ==
    /\ Len(chain) < MaxChain
    /\ \E t \in Times, p \in Payloads :
         LET r == add_block_result(chain, t, p[1], p[2])
         IN  /\ r.pc = "mined"
             /\ chain' = Append(chain, r.block)
    /\ valid' = "none"
    /\ UNCHANGED <<tampered, mineVars, merkleVars>>

\* validate_chain storing the hash it computed in a block that fails
validate_repair ==
    /\ valid = "none"
    /\ valid' = IF validate_chain(chain) THEN "true" ELSE "false"
    /\ chain' = [i \in 1..Len(chain) |->
                   IF i = 1 THEN chain[i]
                   ELSE [chain[i] EXCEPT !.hash = calculate_hash(chain[i])]]
    /\ UNCHANGED <<tampered, mineVars, merkleVars>>

\* blockchain.validate_chain()
validate ==
    /\ valid = "none"
    /\ valid' = IF validate_chain(chain) THEN "true" ELSE "false"
    /\ UNCHANGED <<chain, tampered, mineVars, merkleVars>>

Next == add_block \/ validate

Spec == Init /\ [][Next]_vars

(***************************************************************************)
(* A field of a block written from outside add_block.  Nothing of          *)
(* Blockchain does this; the fields of Block are plain mutable fields, and *)
(* validate_chain exists to find such a write.  One field of one block is  *)
(* given another value; the stored hash is left as it is.                  *)
(***************************************************************************)
\* the values a field is overwritten with
TamperValues(c, i, field) ==
    IF field = "timestamp" THEN 0..(MaxTime + 1)
    ELSE IF field = "nonce" THEN {0, c[i].nonce + 1}
    ELSE IF field = "data" THEN {GenesisData, Block1Data, Block2Data, ColonData}
    ELSE {GenesisPrev, <<>>} \cup {c[j].hash : j \in 1..Len(c)}

tamper ==
    /\ tampered = NoTamper
    /\ \E i \in 1..Len(chain),
          field \in {"timestamp", "nonce", "data", "previous_hash"} :
         \E v \in TamperValues(chain, i, field) :
            /\ v # chain[i][field]
            /\ chain' = [chain EXCEPT ![i][field] = v]
            /\ tampered' = [field |-> field, at |-> chain[i].index]
    /\ valid' = "none"
    /\ UNCHANGED <<mineVars, merkleVars>>

\* a chain is built, one field is written, the chain is validated
NextTamper == (tampered = NoTamper /\ add_block) \/ validate \/ tamper

SpecTamper == Init /\ [][NextTamper]_vars

(***************************************************************************)
(* A block of the chain put together from outside add_block: its stored    *)
(* hash overwritten, or one of its fields changed and its hash computed    *)
(* again with calculate_hash, without mining.                              *)
(***************************************************************************)
\* block.hash = block.calculate_hash();
Rehash(b) == [b EXCEPT !.hash = calculate_hash(b)]

ForgeKinds == {"hash", "index+hash", "data+hash", "nonce+hash"}

\* the block b after the write
Forged(b, kind) ==
    IF kind = "hash" THEN [b EXCEPT !.hash = Repeat0(HexLen)]
    ELSE IF kind = "index+hash" THEN Rehash([b EXCEPT !.index = @ + 1])
    ELSE IF kind = "data+hash"
    THEN Rehash([b EXCEPT !.data = IF @ = Block1Data THEN Block2Data
                                   ELSE Block1Data])
    ELSE Rehash([b EXCEPT !.nonce = @ + 1])

forge ==
    /\ tampered = NoTamper
    /\ \E i \in 1..Len(chain), kind \in ForgeKinds :
         /\ chain' = [chain EXCEPT ![i] = Forged(chain[i], kind)]
         /\ tampered' = [field |-> kind, at |-> chain[i].index]
    /\ valid' = "none"
    /\ UNCHANGED <<mineVars, merkleVars>>

\* a chain is built, one block is put together anew, the chain is validated
NextForge == (tampered = NoTamper /\ add_block) \/ validate \/ forge

SpecForge == Init /\ [][NextForge]_vars

(***************************************************************************)
(* A block of its own and the loop of Block::mine, one turn at a time.     *)
(***************************************************************************)
\* the difficulties mine is called with: those of the tests and of
\* add_block, one more, the length of the digest and one past it
MineDifficulties == 0..(Difficulty + 1) \cup {HexLen, HexLen + 1}

\* let mut block = Block::new(index, now(), previous_hash, data);
new_block ==
    /\ pc = "none"
    /\ \E index \in 0..1, t \in Times, data \in {Block1Data, ColonData},
          prev \in {GenesisPrev, chain[1].hash} :
         blk' = Block_new(index, t, prev, data, <<>>)
    /\ pc' = "unmined"
    /\ UNCHANGED <<difficulty, start, mined_with, chainVars, merkleVars>>

\* block.mine(d): the call enters the loop
mine_call ==
    /\ pc \in {"unmined", "mined"}
    /\ \E d \in MineDifficulties : difficulty' = d
    /\ start' = blk
    /\ mined_with' = IF pc = "mined" THEN difficulty ELSE -1
    /\ pc' = "mining"
    /\ UNCHANGED <<blk, chainVars, merkleVars>>

\* one turn of the loop
mine_step ==
    /\ pc = "mining"
    /\ \E r \in {mine_iteration(blk, difficulty)} :
           /\ r.block.nonce <= MaxNonce
           /\ blk' = r.block
           /\ pc' = r.pc
    /\ UNCHANGED <<difficulty, start, mined_with, chainVars, merkleVars>>

NextMine == new_block \/ mine_call \/ mine_step

SpecMine == Init /\ [][NextMine]_vars

\* the loop of mine is straight-line code of one thread: a turn that can be
\* taken is taken
SpecMineFair == Init /\ [][NextMine]_vars /\ WF_vars(mine_step)

(***************************************************************************)
(* Transaction::create_merkle_root applied to a transaction sequence.      *)
(***************************************************************************)
\* let root = Transaction::create_merkle_root(&t);
merkle_call ==
    /\ root.status = "none"
    /\ \E t \in TxSeqs :
         /\ txs' = t
         /\ root' = create_merkle_root(t)
    /\ UNCHANGED <<chainVars, mineVars>>

NextMerkle == merkle_call

SpecMerkle == Init /\ [][NextMerkle]_vars

(***************************************************************************)
(* Block::mine                                                             *)
(***************************************************************************)
\* C1: whenever mine(d) with d of 0..4 has returned, the stored hash starts
\* with at least d characters '0' and is the hash calculate_hash computes
\* from the fields the block then has, final nonce included
C1_MinedHashMeetsTarget ==
    (pc = "mined" /\ difficulty \in 0..4) =>
        /\ LeadingZeros(blk.hash) >= difficulty
        /\ calculate_hash(blk) = blk.hash

\* mine(4) has returned after moving the nonce
C1_Witness ==
    /\ pc = "mined"
    /\ difficulty = 4
    /\ blk.nonce > 0
    /\ LeadingZeros(blk.hash) >= 4

\* C9: a call of mine with a difficulty above the length of the digest is
\* turned down before the loop is entered (the block is never in the loop
\* with such a difficulty)
C9_RejectedBeforeLoop == (difficulty > HexLen) => (pc # "mining")

\* the nonces from that of b up to MaxNonce with which the hash of b has
\* at least d leading '0'
MatchingNonces(b, d) ==
    { n \in b.nonce..MaxNonce :
        \E h \in {calculate_hash([b EXCEPT !.nonce = n])} : LeadingZeros(h) >= d }

\* C11: once the loop of mine(d) runs on a block for which some nonce at or
\* above the block's gives a hash with d leading '0', the block gets to
\* "mined" (mine returns): the loop neither runs on for ever nor panics
C11_MiningTerminates ==
    (pc = "mining" /\ MatchingNonces(blk, difficulty) # {}) ~> (pc = "mined")

\* mine has returned after at least two turns that moved the nonce
C11_Witness ==
    /\ pc = "mined"
    /\ difficulty \in 1..Difficulty
    /\ blk.nonce >= start.nonce + 2

\* with the nonce n the hash of b has at least d leading '0'
Matches(b, n, d) ==
    \E h \in {calculate_hash([b EXCEPT !.nonce = n])} : LeadingZeros(h) >= d

\* C17: mine(d) tries the nonces one after the other from the one the block
\* has: no nonce it has gone past gives a hash with d leading '0', so the
\* nonce it returns with is the smallest such nonce at or above the one it
\* started from; mine(0) returns in its first turn with the nonce it found
C17_SmallestNonce ==
    /\ pc \in {"mining", "mined"} =>
          /\ blk.nonce >= start.nonce
          /\ \A n \in start.nonce..(blk.nonce - 1) : ~Matches(start, n, difficulty)
    /\ pc = "mined" => Matches(start, blk.nonce, difficulty)
    /\ (pc \in {"mining", "mined"} /\ difficulty = 0) => blk.nonce = start.nonce

\* mine(3) has returned three nonces above the one it started from
C17_Witness ==
    /\ pc = "mined"
    /\ difficulty = 3
    /\ blk.nonce = start.nonce + 3

\* C18: from the call of mine on, through every turn of the loop and after
\* it, the index, the timestamp, the previous_hash and the payload and
\* transactions of the block are those it had at the call
C18_MineFrame ==
    pc \in {"mining", "mined", "panicked"} =>
        /\ blk.index = start.index
        /\ blk.timestamp = start.timestamp
        /\ blk.previous_hash = start.previous_hash
        /\ blk.data = start.data
        /\ blk.transactions = start.transactions

\* mine has returned with another nonce and another hash than at the call
C18_Witness ==
    /\ pc = "mined"
    /\ blk.nonce # start.nonce
    /\ blk.hash # start.hash

\* C19: mine(d) called on a block on which mine had returned with a
\* difficulty of at least d returns in its first turn, and the turn leaves
\* the block, nonce and hash included, as it was
C19_MineIdempotent ==
    [][ (pc = "mining" /\ mined_with >= difficulty /\ blk = start) =>
            (pc' = "mined" /\ blk' = blk) ]_vars

\* mine(d) has returned on a block mined before with at least d, changing
\* nothing
C19_Witness ==
    /\ pc = "mined"
    /\ mined_with >= difficulty
    /\ difficulty >= 1
    /\ blk = start
    /\ blk.nonce > 0

(***************************************************************************)
(* Blockchain                                                              *)
(***************************************************************************)
\* C2: every chain made by new and any number of add_block is one that
\* validate_chain finds valid, and no call of validate_chain returned false
C2_ChainValid == validate_chain(chain) /\ valid # "false"

\* validate_chain has returned true for a chain of three blocks
C2_Witness == Len(chain) >= 3 /\ valid = "true"

\* C3: after the payload, the timestamp or the nonce of one block (genesis
\* included) of a valid chain was given another value and the stored hash
\* left alone, validate_chain returns false
C3_TamperDetected ==
    (tampered.field \in {"data", "timestamp", "nonce"} /\ valid # "none")
        => valid = "false"

\* C4: after the previous_hash of a block of index >= 1 of a valid chain was
\* given another value, validate_chain returns false
C4_LinkBreakDetected ==
    (tampered.field = "previous_hash" /\ tampered.at >= 1 /\ valid # "none")
        => valid = "false"

\* the previous_hash of the second of three blocks was overwritten and
\* validate_chain has returned false
C4_Witness ==
    /\ tampered.field = "previous_hash"
    /\ tampered.at = 1
    /\ Len(chain) = 3
    /\ valid = "false"

\* C5: a step that changes the chain adds exactly one block at the end and
\* leaves every block that was in the chain where it was, with all its
\* fields as they were; no step removes, reorders or edits a block
C5_AppendOnly ==
    [][ chain' # chain =>
          /\ Len(chain') = Len(chain) + 1
          /\ \A i \in 1..Len(chain) : chain'[i] = chain[i] ]_vars

\* add_block was called twice
C5_Witness == Len(chain) = 3 /\ chain[3].index = 2

\* C6: the chain is never empty, and the block at position i has index i
\* (positions counted from 0 as the program does)
C6_IndexIsPosition ==
    /\ Len(chain) >= 1
    /\ \A i \in 1..Len(chain) : chain[i].index = i - 1

\* a chain of three blocks with the indices 0, 1, 2
C6_Witness ==
    /\ Len(chain) = 3
    /\ <<chain[1].index, chain[2].index, chain[3].index>> = <<0, 1, 2>>

\* C7: every block after the genesis block has as previous_hash the stored
\* hash of the block before it, and that is the hash the block before it
\* has after its mining (it meets the difficulty when that block was mined)
C7_LinkedToPredecessor ==
    \A i \in 2..Len(chain) :
        /\ chain[i].previous_hash = chain[i - 1].hash
        /\ i > 2 => LeadingZeros(chain[i].previous_hash) >= Difficulty

\* a third block linked to a second block whose mining moved its nonce
C7_Witness ==
    /\ Len(chain) = 3
    /\ chain[2].nonce > 0
    /\ chain[3].previous_hash = chain[2].hash

\* C8: the stored hash of every block that holds transactions is the digest
\* of (index, timestamp, previous_hash, Merkle root of the transactions,
\* nonce): the header with the Merkle root in the place of the payload
C8_HashCommitsToMerkleRoot ==
    \A i \in 1..Len(chain) :
        LET b == chain[i]
            merkle_headers ==
                ToDec(b.index) \o <<Colon>> \o ToDec(b.timestamp) \o <<Colon>>
                \o b.previous_hash \o <<Colon>>
                \o create_merkle_root(b.transactions).value
                \o <<Colon>> \o ToDec(b.nonce)
        IN  b.transactions # <<>> => b.hash = Sha256Hex(merkle_headers)

\* C13: Blockchain::new() gives a chain of exactly one block, and that
\* block (which stays the first of the chain) has index 0, previous_hash
\* "0", the payload "Genesis Block", nonce 0 and as hash the digest of
\* "0:<timestamp>:0:Genesis Block:0"; it is not mined
C13_GenesisBlock ==
    /\ Init => Len(chain) = 1
    /\ chain[1].index = 0
    /\ chain[1].timestamp \in Times
    /\ chain[1].previous_hash = <<48>>
    /\ chain[1].data = GenesisData
    /\ chain[1].nonce = 0
    /\ chain[1].hash = Sha256Hex(<<48, Colon>> \o ToDec(chain[1].timestamp)
                                 \o <<Colon, 48, Colon>> \o GenesisData
                                 \o <<Colon, 48>>)

\* a new chain whose genesis hash does not meet the difficulty of add_block
C13_Witness ==
    /\ Len(chain) = 1
    /\ valid = "none"
    /\ LeadingZeros(chain[1].hash) < Difficulty

\* C14: a call of validate_chain, on a chain as built or on one written to,
\* returns true or false and changes no block; a chain it reports invalid
\* is as invalid after the call as before
C14_ValidateIsQuery ==
    [][ (valid = "none" /\ valid' # "none") =>
          /\ valid' \in {"true", "false"}
          /\ chain' = chain
          /\ valid' = "false" => ~validate_chain(chain') ]_vars

\* validate_chain has reported a chain with an overwritten hash
C14_Witness ==
    /\ tampered.field = "hash"
    /\ tampered.at >= 1
    /\ valid = "false"
    /\ ~validate_chain(chain)

\* the stored hash of the block at position i is the one calculate_hash
\* gives
HashConsistent(c, i) == c[i].hash = calculate_hash(c[i])

\* the block at position i names the stored hash of the block before it
Linked(c, i) == c[i].previous_hash = c[i - 1].hash

\* C15: validate_chain returns true exactly when every block after the
\* first has a stored hash equal to calculate_hash() and a previous_hash
\* equal to the stored hash of the block before; a chain of fewer than two
\* blocks is valid; one failing comparison anywhere makes the result false
C15_ValidateExact ==
    valid # "none" =>
        /\ (valid = "true") <=>
               \A i \in 2..Len(chain) :
                   HashConsistent(chain, i) /\ Linked(chain, i)
        /\ Len(chain) < 2 => valid = "true"

\* validate_chain has returned false for a chain in which every stored hash
\* is the computed one and only a link is broken
C15_Witness ==
    /\ valid = "false"
    /\ \A i \in 2..Len(chain) : HashConsistent(chain, i)
    /\ \E i \in 2..Len(chain) : ~Linked(chain, i)

\* C20: validate_chain checks neither the proof of work nor the index: a
\* chain whose blocks after the first all have the computed hash and the
\* link is reported valid also when a block's hash has fewer leading '0'
\* than the difficulty or its index is not its position
C20_NoWorkNoIndexCheck ==
    ( /\ valid # "none"
      /\ \A i \in 2..Len(chain) : HashConsistent(chain, i) /\ Linked(chain, i)
      /\ \E i \in 2..Len(chain) :
            \/ LeadingZeros(chain[i].hash) < Difficulty
            \/ chain[i].index # i - 1 )
    => valid = "true"

\* validate_chain has returned true for a chain whose last block has a
\* wrong index and a hash that does not meet the difficulty
C20_Witness ==
    /\ valid = "true"
    /\ Len(chain) = 3
    /\ chain[3].index # 2
    /\ LeadingZeros(chain[3].hash) < Difficulty

\* C16: every block after the first is in the chain as add_block built and
\* mined it: its index is the length the chain had, its previous_hash the
\* hash of the block that was last, and its stored hash, the one computed
\* from its final nonce, starts with Difficulty characters '0' (also for a
\* block of no transactions); no block is in the chain before its mining
\* is over
C16_OnlyMinedBlocksAppended ==
    \A i \in 2..Len(chain) :
        /\ chain[i].index = i - 1
        /\ chain[i].previous_hash = chain[i - 1].hash
        /\ chain[i].hash = calculate_hash(chain[i])
        /\ SubSeq(chain[i].hash, 1, Difficulty) = <<48, 48, 48, 48>>

\* a block of no transactions, mined over several nonces, is in the chain
C16_Witness ==
    \E i \in 2..Len(chain) :
        /\ chain[i].transactions = <<>>
        /\ chain[i].nonce > 0
        /\ LeadingZeros(chain[i].hash) >= Difficulty

(***************************************************************************)
(* Transaction::create_merkle_root                                         *)
(***************************************************************************)
\* C10: create_merkle_root of no transactions returns a value (a sentinel
\* root); it does not fail
C10_EmptyHasSentinel ==
    (root.status # "none" /\ txs = <<>>) =>
        (root.status = "returned" /\ Len(root.value) > 0)

\* the hash of one transaction, a leaf
Leaf(t) == Sha256Hex(transaction_data(t))

\* the largest power of two below n (n > 1)
RECURSIVE SplitAt(_)
SplitAt(n) == IF n <= 2 THEN 1 ELSE 2 * SplitAt((n + 1) \div 2)

\* the fold of leaves lo..hi of a transaction sequence, said by the shape
\* of the tree it builds: pairing adjacent hashes level by level with the
\* odd one carried up as it is gives a left subtree over the largest power
\* of two of leaves and a right subtree over the rest, and a lone leaf is
\* its own root
RECURSIVE ReferenceRoot(_, _, _)
ReferenceRoot(t, lo, hi) ==
    IF lo = hi THEN Leaf(t[lo])
    ELSE LET k == SplitAt(hi - lo + 1)
         IN  Sha256Hex(ReferenceRoot(t, lo, lo + k - 1)
                       \o ReferenceRoot(t, lo + k, hi))

\* C12: for a sequence of one or more transactions create_merkle_root
\* returns the root of the reference fold; of three transactions that is
\* H(H(leaf1 leaf2) leaf3), the third leaf carried up and not hashed with
\* itself; of one transaction it is the leaf
C12_MerkleRootIsFold ==
    (root.status # "none" /\ Len(txs) >= 1) =>
        /\ root.status = "returned"
        /\ root.value = ReferenceRoot(txs, 1, Len(txs))
        /\ Len(txs) = 1 => root.value = Leaf(txs[1])
        /\ Len(txs) = 3 =>
             root.value = Sha256Hex(Sha256Hex(Leaf(txs[1]) \o Leaf(txs[2]))
                                    \o Leaf(txs[3]))

\* the root of three transactions of the same content was computed
C12_Witness ==
    /\ root.status = "returned"
    /\ txs = <<Tx1, Tx1, Tx1>>

====
